---------------------------- MODULE Spec2Model ----------------------------
(***************************************************************************)
(* A model of feck's arXiv manifest (src/src/feck/arxiv/manifest.py) and   *)
(* of the XML reader it calls (src/src/feck/file/handler/xml_handler.py).  *)
(*                                                                         *)
(* Python values are modelled structurally:                                *)
(*   - a str is a sequence of one-character strings,                       *)
(*   - a decoded XML value is a pair <<tag, payload>>: None, a str, a      *)
(*     list (sequence of values) or a dict (sequence of <<key, value>>     *)
(*     pairs in insertion order, keys distinct),                           *)
(*   - a call returns [exc, val]: the exception it raises (NoExc when it   *)
(*     returns) and the value it returns.                                  *)
(***************************************************************************)
EXTENDS Integers, Sequences, FiniteSets, TLC

VARIABLES manifest, op, arg, ret, exc, pre, handles

vars == <<manifest, op, arg, ret, exc, pre, handles>>

(***************************************************************************)
(* Bounds of the model.                                                    *)
(***************************************************************************)
\* longest 'file' list of a decoded document
MaxEntries == 2
\* sequence numbers are taken within this distance of 0, 10, 100 and 1000
SeqWindow == 2
\* most records of a Manifest whose statistics are taken on their own
MaxRecords == 4
\* most bytes of a file or buffer that is hashed
MaxContent == 4

(***************************************************************************)
(* Python values.                                                          *)
(***************************************************************************)
None == <<"none", <<>>>>
Str(s) == <<"str", s>>
IntVal(n) == <<"int", <<n>>>>
List(q) == <<"list", q>>
Dict(pairs) == <<"dict", pairs>>

Tag(v) == v[1]
Payload(v) == v[2]

\* isinstance(v, str), isinstance(v, list)
IsStr(v) == Tag(v) = "str"
IsList(v) == Tag(v) = "list"

\* v.keys() exists only for a dict: anything else raises AttributeError
HasKeys(v) == Tag(v) = "dict"
Keys(d) == {Payload(d)[i][1] : i \in DOMAIN Payload(d)}
\* d[k] for a key k of d
Get(d, k) == LET p == Payload(d) IN p[CHOOSE i \in DOMAIN p : p[i][1] = k][2]
\* d[k] where d[k] is a str: its characters
GetStr(d, k) == Payload(Get(d, k))
\* [value for _, value in d.items()]
Values(d) == {Payload(d)[i][2] : i \in DOMAIN Payload(d)}

(***************************************************************************)
(* Exceptions.                                                             *)
(***************************************************************************)
NoExc == [type |-> "none", msg |-> ""]
Exc(t, m) == [type |-> t, msg |-> m]
Return(v) == [exc |-> NoExc, val |-> <<v>>]
Raise(t, m) == [exc |-> Exc(t, m), val |-> <<>>]
Raised(r) == r.exc # NoExc
Val(r) == r.val[1]

IntLiteralError == Exc("ValueError", "invalid literal for int() with base 10")
TimeFormatError == Exc("ValueError", "time data does not match format")
EntryInconsistent == Exc("ValueError", "Entry inconsistent")
EntriesMissing == Exc("TypeError", "Entries missing in arXiv XML file")
ManifestNotFound == Exc("FileNotFoundError", "arXiv XML file not found")
NoKeysAttribute == Exc("AttributeError", "object has no attribute 'keys'")

(***************************************************************************)
(* Strings and integers: slicing, int(), str() and the :03d format.        *)
(***************************************************************************)
Digits == {"0", "1", "2", "3", "4", "5", "6", "7", "8", "9"}

DigitVal(c) ==
    CASE c = "0" -> 0 [] c = "1" -> 1 [] c = "2" -> 2 [] c = "3" -> 3
      [] c = "4" -> 4 [] c = "5" -> 5 [] c = "6" -> 6 [] c = "7" -> 7
      [] c = "8" -> 8 [] c = "9" -> 9

DigitChar(d) ==
    CASE d = 0 -> "0" [] d = 1 -> "1" [] d = 2 -> "2" [] d = 3 -> "3"
      [] d = 4 -> "4" [] d = 5 -> "5" [] d = 6 -> "6" [] d = 7 -> "7"
      [] d = 8 -> "8" [] d = 9 -> "9"

\* s[:n]
Prefix(s, n) == SubSeq(s, 1, IF n < Len(s) THEN n ELSE Len(s))
\* s[n:]
Suffix(s, n) == SubSeq(s, n + 1, Len(s))

\* the digits of an int() literal after its sign: digits, single underscores
\* allowed between digits
Unsigned(s) == IF Len(s) > 0 /\ s[1] \in {"+", "-"} THEN Tail(s) ELSE s

\* whether int(s) accepts s (values read from XML carry no outer whitespace)
IsDigitString(b) ==
    /\ Len(b) > 0
    /\ b[1] \in Digits
    /\ b[Len(b)] \in Digits
    /\ \A i \in 1..Len(b) :
          /\ b[i] \in Digits \cup {"_"}
          /\ (b[i] = "_" => b[i + 1] # "_")

IsIntLiteral(s) == IsDigitString(Unsigned(s))

RECURSIVE DigitsValue(_, _)
DigitsValue(b, acc) ==
    IF b = <<>> THEN acc
    ELSE IF b[1] = "_" THEN DigitsValue(Tail(b), acc)
    ELSE DigitsValue(Tail(b), 10 * acc + DigitVal(b[1]))

\* int(s): the value, or ValueError
int(s) ==
    IF ~IsIntLiteral(s) THEN [exc |-> IntLiteralError, val |-> <<>>]
    ELSE LET v == DigitsValue(Unsigned(s), 0) IN
         Return(IF s[1] = "-" THEN 0 - v ELSE v)

RECURSIVE NatStr(_)
NatStr(n) == IF n < 10 THEN <<DigitChar(n)>>
             ELSE NatStr(n \div 10) \o <<DigitChar(n % 10)>>

\* str(n)
str(n) == IF n < 0 THEN <<"-">> \o NatStr(0 - n) ELSE NatStr(n)

RECURSIVE Zeros(_)
Zeros(k) == IF k <= 0 THEN <<>> ELSE <<"0">> \o Zeros(k - 1)

\* format(n, '0{w}d'): the sign, then zeros up to the width w, then the digits
FormatLostSign(n, w) ==
    LET d == NatStr(IF n < 0 THEN 0 - n ELSE n) IN Zeros(w - Len(d)) \o d

Padded(sign, d, w) == sign \o Zeros(w - Len(sign) - Len(d)) \o d

FormatZeroPadded(n, w) ==
    Padded(IF n < 0 THEN <<"-">> ELSE <<>>, NatStr(IF n < 0 THEN 0 - n ELSE n), w)

(***************************************************************************)
(* Timestamps.  strptime is modelled on fixed-width text: the inputs of    *)
(* the model are either in the fixed-width layout of the format or do not  *)
(* match it at all.  America/New_York is modelled from 1987 on (rules of   *)
(* 1987-2006 and of 2007 onwards); the inputs lie in that range.           *)
(***************************************************************************)
AllDigits(s) == \A i \in 1..Len(s) : s[i] \in Digits
Num(s) == DigitsValue(s, 0)

MonthNames == << <<"J","a","n">>, <<"F","e","b">>, <<"M","a","r">>, <<"A","p","r">>,
                 <<"M","a","y">>, <<"J","u","n">>, <<"J","u","l">>, <<"A","u","g">>,
                 <<"S","e","p">>, <<"O","c","t">>, <<"N","o","v">>, <<"D","e","c">> >>
DayNames == { <<"M","o","n">>, <<"T","u","e">>, <<"W","e","d">>, <<"T","h","u">>,
              <<"F","r","i">>, <<"S","a","t">>, <<"S","u","n">> }

IsLeap(y) == (y % 4 = 0 /\ y % 100 # 0) \/ y % 400 = 0
DaysInMonth(y, m) ==
    IF m = 2 THEN (IF IsLeap(y) THEN 29 ELSE 28)
    ELSE IF m \in {4, 6, 9, 11} THEN 30 ELSE 31

\* the fields datetime(...) accepts
ValidDateTime(t) ==
    /\ t.year >= 1
    /\ t.month \in 1..12
    /\ t.day \in 1..DaysInMonth(t.year, t.month)
    /\ t.hour \in 0..23
    /\ t.minute \in 0..59
    /\ t.second \in 0..59

DateTime(y, mo, d, h, mi, s) ==
    [year |-> y, month |-> mo, day |-> d, hour |-> h, minute |-> mi, second |-> s]

\* the datetime strptime builds: fields out of range are a ValueError too
CheckedDateTime(t) ==
    IF ValidDateTime(t) THEN Return(t) ELSE [exc |-> TimeFormatError, val |-> <<>>]

\* a two-character %d field: two digits, or a space and a digit
DayField(s) == \/ AllDigits(s)
               \/ (s[1] = " " /\ s[2] \in Digits)
DayValue(s) == IF s[1] = " " THEN DigitVal(s[2]) ELSE Num(s)

\* datetime.strptime(s, '%Y-%m-%d %H:%M:%S')
strptime_entry(s) ==
    IF /\ Len(s) = 19
       /\ AllDigits(SubSeq(s, 1, 4)) /\ s[5] = "-"
       /\ AllDigits(SubSeq(s, 6, 7)) /\ s[8] = "-"
       /\ AllDigits(SubSeq(s, 9, 10)) /\ s[11] = " "
       /\ AllDigits(SubSeq(s, 12, 13)) /\ s[14] = ":"
       /\ AllDigits(SubSeq(s, 15, 16)) /\ s[17] = ":"
       /\ AllDigits(SubSeq(s, 18, 19))
    THEN CheckedDateTime(DateTime(Num(SubSeq(s, 1, 4)), Num(SubSeq(s, 6, 7)),
                                  Num(SubSeq(s, 9, 10)), Num(SubSeq(s, 12, 13)),
                                  Num(SubSeq(s, 15, 16)), Num(SubSeq(s, 18, 19))))
    ELSE [exc |-> TimeFormatError, val |-> <<>>]

\* datetime.strptime(s, '%a %b %d %H:%M:%S %Y'); %a is matched, never
\* compared with the date
strptime_manifest(s) ==
    IF /\ Len(s) = 24
       /\ SubSeq(s, 1, 3) \in DayNames /\ s[4] = " "
       /\ (\E m \in 1..12 : MonthNames[m] = SubSeq(s, 5, 7)) /\ s[8] = " "
       /\ DayField(SubSeq(s, 9, 10)) /\ s[11] = " "
       /\ AllDigits(SubSeq(s, 12, 13)) /\ s[14] = ":"
       /\ AllDigits(SubSeq(s, 15, 16)) /\ s[17] = ":"
       /\ AllDigits(SubSeq(s, 18, 19)) /\ s[20] = " "
       /\ AllDigits(SubSeq(s, 21, 24))
    THEN CheckedDateTime(DateTime(Num(SubSeq(s, 21, 24)),
                                  CHOOSE m \in 1..12 : MonthNames[m] = SubSeq(s, 5, 7),
                                  DayValue(SubSeq(s, 9, 10)), Num(SubSeq(s, 12, 13)),
                                  Num(SubSeq(s, 15, 16)), Num(SubSeq(s, 18, 19))))
    ELSE [exc |-> TimeFormatError, val |-> <<>>]

\* 0 = Sunday .. 6 = Saturday
DayOfWeek(y, m, d) ==
    LET t == <<0, 3, 2, 5, 0, 3, 5, 1, 4, 6, 2, 4>>
        yy == IF m < 3 THEN y - 1 ELSE y
    IN (yy + (yy \div 4) - (yy \div 100) + (yy \div 400) + t[m] + d) % 7

\* the day of the n-th Sunday of a month, and of its last Sunday
NthSunday(y, m, n) == (CHOOSE d \in 1..7 : DayOfWeek(y, m, d) = 0) + 7 * (n - 1)
LastSunday(y, m) ==
    CHOOSE d \in (DaysInMonth(y, m) - 6)..DaysInMonth(y, m) : DayOfWeek(y, m, d) = 0

\* a day of a year as the number 100 * month + day
MonthDay(m, d) == 100 * m + d

\* the first and the last day of daylight saving time in New York
DstStart(y) == IF y >= 2007 THEN MonthDay(3, NthSunday(y, 3, 2))
               ELSE MonthDay(4, NthSunday(y, 4, 1))
DstEnd(y) == IF y >= 2007 THEN MonthDay(11, NthSunday(y, 11, 1))
             ELSE MonthDay(10, LastSunday(y, 10))

\* whether wall-clock time t (fold = 0) is daylight saving time: the clock
\* jumps from 02:00 to 03:00 on the first day (a time in the gap keeps the
\* standard offset) and falls back from 02:00 to 01:00 on the last day (a
\* repeated time is the first, daylight, occurrence)
InDaylightPeriod(md, hour, first, last) ==
    /\ (md > first \/ (md = first /\ hour >= 3))
    /\ (md < last \/ (md = last /\ hour < 2))

IsDaylight(t) ==
    InDaylightPeriod(MonthDay(t.month, t.day), t.hour, DstStart(t.year), DstEnd(t.year))

\* hours to add to New York wall-clock time to get UTC
FixedOffsetHours(t) == 5
EasternOffsetHours(t) == IF IsDaylight(t) THEN 4 ELSE 5

\* t.replace(tzinfo=eastern).astimezone(UTC): the offset is at most 5 hours,
\* so the date moves forward by at most a day
AddHours(t, offset) ==
    LET h == t.hour + offset
        carry == h >= 24
        lastOfMonth == t.day = DaysInMonth(t.year, t.month)
        lastOfYear == lastOfMonth /\ t.month = 12
    IN IF ~carry THEN [t EXCEPT !.hour = h]
       ELSE [t EXCEPT !.hour = h - 24,
                      !.day = IF lastOfMonth THEN 1 ELSE t.day + 1,
                      !.month = IF lastOfYear THEN 1
                                ELSE IF lastOfMonth THEN t.month + 1 ELSE t.month,
                      !.year = IF lastOfYear THEN t.year + 1 ELSE t.year]

ToUtc(t) == AddHours(t, EasternOffsetHours(t))

\* datetime.isoformat() of a UTC time without microseconds
isoformat(t) ==
    FormatZeroPadded(t.year, 4) \o <<"-">> \o FormatZeroPadded(t.month, 2) \o <<"-">>
      \o FormatZeroPadded(t.day, 2) \o <<"T">> \o FormatZeroPadded(t.hour, 2) \o <<":">>
      \o FormatZeroPadded(t.minute, 2) \o <<":">> \o FormatZeroPadded(t.second, 2)
      \o <<"+","0","0",":","0","0">>

\* the two converters after strptime: attach the zone, convert, format
eastern_to_utc_iso(parsed) ==
    IF Raised(parsed) THEN [exc |-> parsed.exc, val |-> <<>>]
    ELSE Return(isoformat(ToUtc(Val(parsed))))

convert_arxiv_timestamp_to_iso(timestamp) ==
    eastern_to_utc_iso(strptime_manifest(timestamp))

convert_arxiv_file_entry_timestamp_to_iso(timestamp) ==
    eastern_to_utc_iso(strptime_entry(timestamp))

(***************************************************************************)
(* Manifest._is_file_entry_consistent and Manifest._process_file_entry.    *)
(***************************************************************************)
FilenameHead == <<"s","r","c","/","a","r","X","i","v","_","s","r","c","_">>
FilenameTail == <<".","t","a","r">>

\* f"src/arXiv_src_{yymm}_{seq_num:03d}.tar"
generated_filename_lost_sign(yymm, seq_num) ==
    FilenameHead \o yymm \o <<"_">> \o FormatLostSign(seq_num, 3) \o FilenameTail

generated_filename(yymm, seq_num) ==
    FilenameHead \o yymm \o <<"_">> \o FormatZeroPadded(seq_num, 3) \o FilenameTail

\* the comparisons of the consistency check without its month test
consistent_any_month(entry_filename, yymm, seq_num, month) ==
    IF Raised(seq_num) THEN [exc |-> seq_num.exc, val |-> <<>>]
    ELSE IF Raised(month) THEN [exc |-> month.exc, val |-> <<>>]
    ELSE Return(~(entry_filename # generated_filename(yymm, Val(seq_num))))

\* the comparisons of the consistency check with the month tested against
\* its upper limit alone
consistent_month_at_most_12(entry_filename, yymm, seq_num, month) ==
    IF Raised(seq_num) THEN [exc |-> seq_num.exc, val |-> <<>>]
    ELSE IF Raised(month) THEN [exc |-> month.exc, val |-> <<>>]
    ELSE Return(/\ ~(entry_filename # generated_filename(yymm, Val(seq_num)))
                /\ ~(Val(month) > 12))

\* the body of _is_file_entry_consistent on the values it reads: seq_num is
\* int(file_entry['seq_num']), month is int(yymm[2:])
consistent(entry_filename, yymm, seq_num, month) ==
    IF Raised(seq_num) THEN [exc |-> seq_num.exc, val |-> <<>>]
    ELSE IF Raised(month) THEN [exc |-> month.exc, val |-> <<>>]
    ELSE Return(/\ ~(entry_filename # generated_filename(yymm, Val(seq_num)))
                /\ ~(Val(month) <= 0 \/ Val(month) > 12))

is_file_entry_consistent(file_entry) ==
    consistent(GetStr(file_entry, "filename"), GetStr(file_entry, "yymm"),
               int(GetStr(file_entry, "seq_num")),
               int(Suffix(GetStr(file_entry, "yymm"), 2)))

\* the first exception among the calls rs, in evaluation order
FirstRaised(rs) == rs[CHOOSE i \in DOMAIN rs :
                         Raised(rs[i]) /\ \A j \in 1..(i - 1) : ~Raised(rs[j])]

\* the year with 90 counted to the 1900s
century_year_from_90(yy, yy_value) ==
    IF Raised(yy_value) THEN yy_value
    ELSE IF Val(yy_value) >= 90 THEN int(<<"1","9">> \o yy)
    ELSE int(<<"2","0">> \o yy)

\* int(f"19{yy}" if int(yy) > 90 else f"20{yy}"), yy_value being int(yy)
century_year(yy, yy_value) ==
    IF Raised(yy_value) THEN yy_value
    ELSE IF Val(yy_value) > 90 THEN int(<<"1","9">> \o yy)
    ELSE int(<<"2","0">> \o yy)

year_of(yy) == century_year(yy, int(yy))

\* the dict with the two hashes under each other's key
normalized_hashes_swapped(file_entry, calls) ==
    IF \E i \in DOMAIN calls : Raised(calls[i])
    THEN [exc |-> FirstRaised(calls).exc, val |-> <<>>]
    ELSE Return([filename |-> GetStr(file_entry, "filename"),
                 size_bytes |-> Val(calls[1]),
                 timestamp_iso |-> Val(calls[2]),
                 year |-> Val(calls[3]),
                 month |-> Val(calls[4]),
                 sequence_number |-> Val(calls[5]),
                 n_submissions |-> Val(calls[6]),
                 hash |-> [MD5 |-> GetStr(file_entry, "content_md5sum"),
                           MD5_contents |-> GetStr(file_entry, "md5sum")]])

\* the dict _process_file_entry returns, its values evaluated in the order of
\* calls: the first of them that raises ends the call
normalized(file_entry, calls) ==
    IF \E i \in DOMAIN calls : Raised(calls[i])
    THEN [exc |-> FirstRaised(calls).exc, val |-> <<>>]
    ELSE Return([filename |-> GetStr(file_entry, "filename"),
                 size_bytes |-> Val(calls[1]),
                 timestamp_iso |-> Val(calls[2]),
                 year |-> Val(calls[3]),
                 month |-> Val(calls[4]),
                 sequence_number |-> Val(calls[5]),
                 n_submissions |-> Val(calls[6]),
                 hash |-> [MD5 |-> GetStr(file_entry, "md5sum"),
                           MD5_contents |-> GetStr(file_entry, "content_md5sum")]])

\* the outcome when the record is built before the result of the
\* consistency check is looked at
record_then_check(record, is_consistent) ==
    IF Raised(record) THEN record
    ELSE IF Raised(is_consistent) THEN [exc |-> is_consistent.exc, val |-> <<>>]
    ELSE IF ~Val(is_consistent) THEN [exc |-> EntryInconsistent, val |-> <<>>]
    ELSE record

\* _process_file_entry with the fields derived first
checked_entry_fields_first(file_entry, is_consistent) ==
    record_then_check(
        normalized(file_entry,
           << int(GetStr(file_entry, "size")),
              convert_arxiv_file_entry_timestamp_to_iso(GetStr(file_entry, "timestamp")),
              year_of(Prefix(GetStr(file_entry, "yymm"), 2)),
              int(Suffix(GetStr(file_entry, "yymm"), 2)),
              int(GetStr(file_entry, "seq_num")),
              int(GetStr(file_entry, "num_items")) >>),
        is_consistent)

\* _process_file_entry once the consistency check has been evaluated
checked_entry(file_entry, is_consistent) ==
    IF Raised(is_consistent) THEN [exc |-> is_consistent.exc, val |-> <<>>]
    ELSE IF ~Val(is_consistent) THEN [exc |-> EntryInconsistent, val |-> <<>>]
    ELSE normalized(file_entry,
           << int(GetStr(file_entry, "size")),
              convert_arxiv_file_entry_timestamp_to_iso(GetStr(file_entry, "timestamp")),
              year_of(Prefix(GetStr(file_entry, "yymm"), 2)),
              int(Suffix(GetStr(file_entry, "yymm"), 2)),
              int(GetStr(file_entry, "seq_num")),
              int(GetStr(file_entry, "num_items")) >>)

process_file_entry(file_entry) ==
    checked_entry(file_entry, is_file_entry_consistent(file_entry))

(***************************************************************************)
(* Manifest._is_arxiv_keys_present.                                        *)
(***************************************************************************)
expected_top_level_keys == {"arXivSRC"}
expected_src_keys == {"file", "timestamp"}
expected_file_keys == {"content_md5sum", "filename", "first_item", "last_item", "md5sum",
                       "num_items", "seq_num", "size", "timestamp", "yymm"}

is_arxiv_keys_present(xml_dict) ==
    IF Keys(xml_dict) # expected_top_level_keys THEN Return(FALSE)
    ELSE LET src == Get(xml_dict, "arXivSRC") IN
      \* .keys() of a value that is no dict
      IF ~HasKeys(src) THEN [exc |-> NoKeysAttribute, val |-> <<>>]
      ELSE IF Keys(src) # expected_src_keys THEN Return(FALSE)
      ELSE LET files == Get(src, "file") IN
        IF ~(IsStr(Get(src, "timestamp")) /\ IsList(files)) THEN Return(FALSE)
        ELSE LET entries == Payload(files) IN
          \* the list comprehension calls .keys() on every element
          IF \E i \in DOMAIN entries : ~HasKeys(entries[i])
          THEN [exc |-> NoKeysAttribute, val |-> <<>>]
          ELSE IF ~(\A i \in DOMAIN entries : Keys(entries[i]) = expected_file_keys)
          THEN Return(FALSE)
          ELSE Return(\A i \in DOMAIN entries : \A v \in Values(entries[i]) : IsStr(v))

(***************************************************************************)
(* The file system and XmlHandler.read_xml_to_dict.  A file is a pair      *)
(* <<kind, content>>: "missing", "dir" (a directory), "malformed" (a       *)
(* regular file that is not well-formed XML) or "xml" (a well-formed       *)
(* document, given by the mapping xmltodict decodes it to).  For the hash  *)
(* service a regular file is <<"bytes", content>>, content the sequence of *)
(* its bytes.                                                              *)
(***************************************************************************)
Missing == <<"missing", <<>>>>
Directory == <<"dir", <<>>>>
Malformed == <<"malformed", <<>>>>
Xml(doc) == <<"xml", doc>>

\* os.path.isfile
isfile(file) == file[1] \in {"malformed", "xml", "bytes"}

\* XmlHandler.is_xml_format
is_xml_format(file) ==
    IF ~isfile(file) THEN Raise("FileNotFoundError", "file not found")
    ELSE Return(file[1] = "xml")

read_xml_to_dict(file) ==
    IF ~isfile(file) THEN Raise("FileNotFoundError", "file not found")
    ELSE IF ~Val(is_xml_format(file)) THEN Raise("TypeError", "file not in XML format")
    ELSE Return(file[2])

\* File handles: open counts the handles that are open, opened the calls of
\* open() the call under way has made.
NoHandles == [open |-> 0, opened |-> 0]

\* a block that opens a handle and closes it when it ends without exception
with_open_leaking_on_raise(h, raised) ==
    [open |-> IF raised THEN h.open + 1 ELSE h.open, opened |-> h.opened + 1]

\* with open(file_path, 'r') as file_handle: ...  The handle is closed when
\* the block is left, whether its body returned or raised
with_open(h, raised) == [open |-> h.open, opened |-> h.opened + 1]

\* the handles after is_xml_format: ElementTree's parse raises ParseError
\* inside the block when the file is not well-formed
is_xml_format_handles(h, file) ==
    IF ~isfile(file) THEN h ELSE with_open(h, file[1] # "xml")

\* the handles after read_xml_to_dict: the second block is entered when
\* is_xml_format returned True
read_xml_to_dict_handles(h, file) ==
    IF ~isfile(file) THEN h
    ELSE IF ~Val(is_xml_format(file)) THEN is_xml_format_handles(h, file)
    ELSE with_open(is_xml_format_handles(h, file), FALSE)

\* the handles after import_arxiv_xml, which opens no file of its own
import_arxiv_xml_handles(h, file) ==
    IF ~isfile(file) THEN h ELSE read_xml_to_dict_handles(h, file)

\* os.path.basename: what follows the last "/"
RECURSIVE basename(_)
basename(path) ==
    IF \A i \in DOMAIN path : path[i] # "/" THEN path
    ELSE basename(Tail(path))

(***************************************************************************)
(* Manifest: _set_defaults, clear, import_arxiv_xml, get_statistics.       *)
(* self._manifest is [metadata, contents]; metadata is a dict (a sequence  *)
(* of <<key, value>> pairs), contents a sequence of records.               *)
(***************************************************************************)
set_defaults(m) == [metadata |-> <<>>, contents |-> <<>>]

clear_nothing(m) == m

\* a reset of the metadata alone
clear_metadata_only(m) == [m EXCEPT !.metadata = <<>>]

\* a reset of the records alone
clear_contents_only(m) == [m EXCEPT !.contents = <<>>]

clear(m) == set_defaults(<<>>)

\* the list built with each record put after those of the later entries
prepend_reversed(head, rest) ==
    IF Raised(head) THEN [exc |-> head.exc, val |-> <<>>]
    ELSE IF Raised(rest) THEN [exc |-> rest.exc, val |-> <<>>]
    ELSE Return(Val(rest) \o <<Val(head)>>)

\* the list comprehension's next step: the record of the first entry before
\* those of the rest, or the exception of the first call that raises
prepend(head, rest) ==
    IF Raised(head) THEN [exc |-> head.exc, val |-> <<>>]
    ELSE IF Raised(rest) THEN [exc |-> rest.exc, val |-> <<>>]
    ELSE Return(<<Val(head)>> \o Val(rest))

\* a loop that takes an entry before it tests for the end of the list
RECURSIVE process_all_taking_first(_)
process_all_taking_first(entries) ==
    IF entries = <<>> THEN Raise("IndexError", "list index out of range")
    ELSE IF Len(entries) = 1 THEN prepend(process_file_entry(entries[1]), Return(<<>>))
    ELSE prepend(process_file_entry(entries[1]), process_all_taking_first(Tail(entries)))

\* [Manifest._process_file_entry(e) for e in entries]
RECURSIVE process_all(_)
process_all(entries) ==
    IF entries = <<>> THEN Return(<<>>)
    ELSE prepend(process_file_entry(entries[1]), process_all(Tail(entries)))

\* the records of the entries that normalize
RECURSIVE good_records(_)
good_records(entries) ==
    IF entries = <<>> THEN <<>>
    ELSE (IF Raised(process_file_entry(entries[1])) THEN <<>>
          ELSE <<Val(process_file_entry(entries[1]))>>) \o good_records(Tail(entries))

\* the outcome of a call that changes the manifest: the manifest it leaves
\* and the exception it raises
Outcome(m, e) == [manifest |-> m, exc |-> e]

\* self._manifest['contents'] = records: nothing is assigned when the list
\* comprehension raised
assigned(m, records) ==
    IF Raised(records) THEN Outcome(m, records.exc)
    ELSE Outcome([m EXCEPT !.contents = Val(records)], NoExc)

\* the assignment that keeps the records built when an entry fails
set_contents_partial(m, entries) ==
    [assigned(m, process_all(entries)) EXCEPT
        !.manifest.contents = IF Raised(process_all(entries)) THEN good_records(entries)
                              ELSE @]

\* self._manifest['contents'] = [Manifest._process_file_entry(e) for e in entries]
set_contents(m, entries) == assigned(m, process_all(entries))

\* a metadata assignment that stores the filename alone
set_metadata_filename_only(m, file_path, src, timestamp_iso) ==
    IF Raised(timestamp_iso) THEN Outcome(m, timestamp_iso.exc)
    ELSE set_contents([m EXCEPT !.metadata = << <<"manifest_filename", basename(file_path)>> >>],
                      Payload(Get(src, "file")))

\* self._manifest['metadata'] = {...}, then the contents: nothing is
\* assigned when the timestamp conversion raises
set_metadata(m, file_path, src, timestamp_iso) ==
    IF Raised(timestamp_iso) THEN Outcome(m, timestamp_iso.exc)
    ELSE set_contents([m EXCEPT !.metadata = << <<"manifest_filename", basename(file_path)>>,
                                                <<"timestamp_iso", Val(timestamp_iso)>> >>],
                      Payload(Get(src, "file")))

\* import_arxiv_xml from the schema check on
import_validated(m, file_path, xml_dict, valid) ==
    IF Raised(valid) THEN Outcome(m, valid.exc)
    ELSE IF ~Val(valid) THEN Outcome(m, EntriesMissing)
    ELSE set_metadata(m, file_path, Get(xml_dict, "arXivSRC"),
           convert_arxiv_timestamp_to_iso(GetStr(Get(xml_dict, "arXivSRC"), "timestamp")))

\* import_arxiv_xml from the result of read_xml_to_dict on
import_decoded(m, file_path, xml) ==
    IF Raised(xml) THEN Outcome(m, xml.exc)
    ELSE import_validated(m, file_path, Val(xml), is_arxiv_keys_present(Val(xml)))

\* import_arxiv_xml after self.clear()
import_cleared(m, file_path, file) ==
    IF ~isfile(file) THEN Outcome(m, ManifestNotFound)
    ELSE import_decoded(m, file_path, read_xml_to_dict(file))

\* an outcome with the records m held put back before those imported
kept_before(m, outcome) ==
    IF outcome.exc # NoExc THEN outcome
    ELSE [outcome EXCEPT !.manifest.contents = m.contents \o @]

\* the import with the records appended to those already held
import_arxiv_xml_appending(m, file_path, file) ==
    kept_before(m, import_cleared(clear(m), file_path, file))

import_arxiv_xml(m, file_path, file) == import_cleared(clear(m), file_path, file)

\* an iteration that puts the key it adds to behind all other keys
add_entry_moved_last(statistics, key, entry) ==
    LET at == CHOOSE i \in DOMAIN statistics : statistics[i][1] = key IN
    SubSeq(statistics, 1, at - 1) \o SubSeq(statistics, at + 1, Len(statistics))
      \o << <<key, [size_bytes |-> statistics[at][2].size_bytes + entry.size_bytes,
                    n_submissions |-> statistics[at][2].n_submissions
                                        + entry.n_submissions]>> >>

\* an iteration that stores the values of the entry instead of adding them
add_entry_overwriting(statistics, key, entry) ==
    LET at == CHOOSE i \in DOMAIN statistics : statistics[i][1] = key IN
    [statistics EXCEPT ![at] =
        <<key, [size_bytes |-> entry.size_bytes,
                n_submissions |-> entry.n_submissions]>>]

\* one iteration of the loop of get_statistics; statistics is a dict in
\* insertion order, a sequence of <<key, value>>
add_entry(statistics, key, entry) ==
    LET at == CHOOSE i \in DOMAIN statistics : statistics[i][1] = key IN
    [statistics EXCEPT ![at] =
        <<key, [size_bytes |-> statistics[at][2].size_bytes + entry.size_bytes,
                n_submissions |-> statistics[at][2].n_submissions + entry.n_submissions]>>]

\* if key not in statistics: statistics[key] = {'size_bytes': 0, 'n_submissions': 0}
with_key(statistics, key) ==
    IF \E i \in DOMAIN statistics : statistics[i][1] = key THEN statistics
    ELSE Append(statistics, <<key, [size_bytes |-> 0, n_submissions |-> 0]>>)

RECURSIVE accumulate(_, _)
accumulate(statistics, contents) ==
    IF contents = <<>> THEN statistics
    ELSE accumulate(add_entry(with_key(statistics, <<contents[1].year, contents[1].month>>),
                              <<contents[1].year, contents[1].month>>, contents[1]),
                    Tail(contents))

get_statistics(m) == accumulate(<<>>, m.contents)

(***************************************************************************)
(* Inputs: the text of timestamps, file names and paths.                   *)
(***************************************************************************)
\* 'Mon Apr  7 04:58:03 2025'
ManifestStampDaylight ==
    <<"M","o","n"," ","A","p","r"," "," ","7"," ","0","4",":","5","8",
      ":","0","3"," ","2","0","2","5">>
\* '2010-12-23 00:00:00'
ManifestStampNoMatch ==
    <<"2","0","1","0","-","1","2","-","2","3"," ","0","0",":","0","0",
      ":","0","0">>
\* '2010-12-23 00:13:59'
EntryStampStandard ==
    <<"2","0","1","0","-","1","2","-","2","3"," ","0","0",":","1","3",
      ":","5","9">>
\* '2017-08-05 06:13:16'
EntryStampDaylight ==
    <<"2","0","1","7","-","0","8","-","0","5"," ","0","6",":","1","3",
      ":","1","6">>
\* '23/12/2010 00:13'
EntryStampNoMatch ==
    <<"2","3","/","1","2","/","2","0","1","0"," ","0","0",":","1","3">>
\* 'src/invalid_filename.tar'
InvalidFilename ==
    <<"s","r","c","/","i","n","v","a","l","i","d","_","f","i","l","e",
      "n","a","m","e",".","t","a","r">>
\* 'data/arXiv_src_manifest.xml'
PathInDirectory ==
    <<"d","a","t","a","/","a","r","X","i","v","_","s","r","c","_","m",
      "a","n","i","f","e","s","t",".","x","m","l">>
\* 'manifest.xml'
PathPlain ==
    <<"m","a","n","i","f","e","s","t",".","x","m","l">>

Paths == {PathInDirectory, PathPlain}

\* the archive name of the convention for a yymm and a sequence number:
\* 'src/arXiv_src_' yymm '_' the number in at least three digits '.tar'
ArchiveName(yymm, n) ==
    LET digits == IF n < 0 THEN <<"-">> \o (IF 0 - n < 10 THEN <<"0">> ELSE <<>>) \o NatStr(0 - n)
                  ELSE IF n < 10 THEN <<"0", "0">> \o NatStr(n)
                  ELSE IF n < 100 THEN <<"0">> \o NatStr(n)
                  ELSE NatStr(n)
    IN <<"s","r","c","/","a","r","X","i","v","_","s","r","c","_">> \o yymm
         \o <<"_">> \o digits \o <<".","t","a","r">>

\* one <file> element of the manifest, its children in document order
FileEntry(filename, yymm, seq_num, size, num_items, timestamp) ==
    Dict(<< <<"content_md5sum", Str(<<"c","a","c","b">>)>>,
            <<"filename", Str(filename)>>,
            <<"first_item", Str(<<"a","s","t","r","o","-","p","h","0","0","0","1","0","0","1">>)>>,
            <<"last_item", Str(<<"q","u","a","n","t","-","p","h","0","0","0","1","1","1","9">>)>>,
            <<"md5sum", Str(<<"9","4","9","a">>)>>,
            <<"num_items", Str(num_items)>>,
            <<"seq_num", Str(seq_num)>>,
            <<"size", Str(size)>>,
            <<"timestamp", Str(timestamp)>>,
            <<"yymm", Str(yymm)>> >>)

\* d with d[k] = v assigned (k a key of d)
Assign(d, k, v) ==
    Dict([i \in DOMAIN Payload(d) |->
            IF Payload(d)[i][1] = k THEN <<k, v>> ELSE Payload(d)[i]])
\* d with the key k deleted
Delete(d, k) ==
    LET p == Payload(d)
        at == CHOOSE i \in DOMAIN p : p[i][1] = k
    IN Dict(SubSeq(p, 1, at - 1) \o SubSeq(p, at + 1, Len(p)))
\* d with d[k] = v added (k no key of d)
Add(d, k, v) == Dict(Append(Payload(d), <<k, v>>))

(***************************************************************************)
(* Inputs of the record checks: raw entries with ten string fields.        *)
(***************************************************************************)
EntryYymms == { <<"0","0","0","1">>, <<"1","5","0","8">>, <<"9","1","1","2">>,
                <<"1","5","1","3">>, <<"1","5","0","0">>, <<"1","5","1">>,
                <<"0","0","1","0","1">>, <<"1","5">>, <<"+","1","0","1">> }

SeqValues == UNION {(b - SeqWindow)..(b + SeqWindow) : b \in {0, 10, 100, 1000}}

\* seq_num as text: the decimal numbers, and '002', '+2', '1_0', 'x', ''
SeqTexts == {str(n) : n \in SeqValues}
              \cup { <<"0","0","2">>, <<"+","2">>, <<"1","_","0">>, <<"x">>, <<>> }

\* the number a seq_num text stands for (0 when it stands for none)
SeqOf(text) == IF IsIntLiteral(text) THEN Val(int(text)) ELSE 0

\* file names tried with a yymm and a sequence number: the name of the
\* convention, those of the neighbouring numbers and of the other yymm,
\* and a name outside the convention
FilenamesFor(yymm, n) ==
    {ArchiveName(yymm, k) : k \in (n - 1)..(n + 1)}
      \cup {ArchiveName(y, n) : y \in EntryYymms}
      \cup {InvalidFilename}

SizeTexts == { <<"2","2","5">>, <<"-","5">>, <<"1","2","x">> }

EntryStamps == {EntryStampStandard, EntryStampNoMatch}

\* what a Manifest holds, as far as the calls below tell it apart
Held(m) == IF m.contents # <<>> THEN "records"
           ELSE IF m.metadata # <<>> THEN "metadata"
           ELSE "empty"

Y0001 == <<"0","0","0","1">>

\* the first entry of the test fixture, of January 2000
EntryJan2000 ==
    FileEntry(ArchiveName(Y0001, 1), Y0001, <<"1">>, <<"2","2","5">>, <<"2","3">>,
              EntryStampStandard)

\* <arXivSRC> with a <timestamp> and the <file> elements
ArxivDocument(stamp, entries) ==
    Dict(<< <<"arXivSRC", Dict(<< <<"timestamp", Str(stamp)>>,
                                  <<"file", List(entries)>> >>)>> >>)

(***************************************************************************)
(* The record checks as calls: an entry is drawn, then one check is        *)
(* applied to it.                                                          *)
(***************************************************************************)
InitEntry ==
    /\ manifest = set_defaults(<<>>)
    /\ op = "idle"
    /\ \E y \in EntryYymms, s \in SeqTexts, z \in SizeTexts, t \in EntryStamps :
          \E f \in FilenamesFor(y, SeqOf(s)) :
             arg = FileEntry(f, y, s, z, <<"2","3">>, t)
    /\ ret = <<>>
    /\ exc = NoExc
    /\ pre = "empty"
    /\ handles = NoHandles

CallIsFileEntryConsistent ==
    /\ op = "idle"
    /\ op' = "is_file_entry_consistent"
    /\ LET r == is_file_entry_consistent(arg) IN ret' = r.val /\ exc' = r.exc
    /\ UNCHANGED <<manifest, arg, pre, handles>>

CallProcessFileEntry ==
    /\ op = "idle"
    /\ op' = "process_file_entry"
    /\ LET r == process_file_entry(arg) IN ret' = r.val /\ exc' = r.exc
    /\ UNCHANGED <<manifest, arg, pre, handles>>

\* the import of a manifest whose second entry is the entry drawn (its first
\* entry and its timestamp are those of the test fixture)
CallImportWithEntry ==
    /\ op = "idle"
    /\ LET file == Xml(ArxivDocument(ManifestStampDaylight, <<EntryJan2000, arg>>))
           r == import_arxiv_xml(manifest, PathPlain, file)
       IN /\ manifest' = r.manifest
          /\ op' = "import_arxiv_xml"
          /\ arg' = <<PathPlain, file>>
          /\ ret' = <<>>
          /\ exc' = r.exc
          /\ pre' = Held(manifest)
          /\ handles' = import_arxiv_xml_handles(handles, file)

NextEntry == CallIsFileEntryConsistent \/ CallProcessFileEntry \/ CallImportWithEntry

SpecEntry == InitEntry /\ [][NextEntry]_vars

(***************************************************************************)
(* Properties of the consistency check (SpecEntry).                        *)
(***************************************************************************)
\* the last two characters of a text (all of it when it has fewer)
LastTwo(s) == Suffix(s, IF Len(s) > 2 THEN Len(s) - 2 ELSE 0)

\* an integer text lies in lo..hi
TextInRange(s, lo, hi) == IsIntLiteral(s) /\ Val(int(s)) \in lo..hi

CheckedEntry == op = "is_file_entry_consistent"

C10_SeqNumRoundTrip ==
    (CheckedEntry /\ ret = <<TRUE>>) =>
        LET n == SeqOf(GetStr(arg, "seq_num"))
            yymm == GetStr(arg, "yymm")
        IN /\ \A d \in {-1, 1} :
                is_file_entry_consistent(Assign(arg, "seq_num", Str(str(n + d))))
                  = Return(FALSE)
           /\ \A m \in SeqValues :
                m # n => generated_filename(yymm, m) # generated_filename(yymm, n)

\* C10 witness: a consistent entry at the padding boundary, seq_num 1000
C10_Witness ==
    /\ CheckedEntry
    /\ ret = <<TRUE>>
    /\ SeqOf(GetStr(arg, "seq_num")) = 1000

(***************************************************************************)
(* Inputs of the schema check: decoded documents, well-shaped and not.     *)
(***************************************************************************)
SampleEntry ==
    FileEntry(ArchiveName(<<"0","0","0","1">>, 1), <<"0","0","0","1">>, <<"1">>,
              <<"2","2","5">>, <<"2","3">>, EntryStampStandard)

\* what may stand where a file entry is expected: an entry, an entry with a
\* key missing, added or renamed, an entry with a value that is no str, and
\* elements that are no mapping (an empty <file/>, a <file> holding text)
ListElements ==
    { SampleEntry,
      Delete(SampleEntry, "yymm"),
      Add(SampleEntry, "extra", Str(<<"x">>)),
      Add(Delete(SampleEntry, "yymm"), "yymn", Str(<<"0","0","0","1">>)),
      Assign(SampleEntry, "size", None),
      Assign(SampleEntry, "content_md5sum", IntVal(12345)),
      None,
      Str(<<"x">>) }

FileLists == UNION {[1..n -> ListElements] : n \in 0..MaxEntries}

\* what may stand under 'file': a list, a single mapping (one <file>), None
FileValues == {List(q) : q \in FileLists} \cup {SampleEntry, None}

\* what may stand under 'timestamp'
StampValues == {Str(ManifestStampDaylight), Str(ManifestStampNoMatch), None, IntVal(1234)}

\* the mapping under the top-level key, by the keys it has
SrcDict(shape, stamp, files) ==
    CASE shape = "both" -> Dict(<< <<"timestamp", stamp>>, <<"file", files>> >>)
      [] shape = "no_file" -> Dict(<< <<"timestamp", stamp>> >>)
      [] shape = "no_timestamp" -> Dict(<< <<"file", files>> >>)
      [] shape = "extra" -> Dict(<< <<"timestamp", stamp>>, <<"file", files>>,
                                    <<"extra", Str(<<"x">>)>> >>)
SrcShapes == {"both", "no_file", "no_timestamp", "extra"}

\* the document, by its top-level keys
TopDict(shape, src) ==
    CASE shape = "arXivSRC" -> Dict(<< <<"arXivSRC", src>> >>)
      [] shape = "empty" -> Dict(<<>>)
      [] shape = "other" -> Dict(<< <<"invalid", src>> >>)
      [] shape = "extra" -> Dict(<< <<"arXivSRC", src>>, <<"extra", Str(<<"x">>)>> >>)
TopShapes == {"arXivSRC", "empty", "other", "extra"}

(***************************************************************************)
(* The schema check as a call: a document is drawn, then checked.          *)
(***************************************************************************)
InitValidator ==
    /\ manifest = set_defaults(<<>>)
    /\ op = "idle"
    /\ \E top \in TopShapes :
          \/ \E src \in {None, Str(<<"x">>)} : arg = TopDict(top, src)
          \/ \E shape \in SrcShapes, stamp \in StampValues, files \in FileValues :
                arg = TopDict(top, SrcDict(shape, stamp, files))
    /\ ret = <<>>
    /\ exc = NoExc
    /\ pre = "empty"
    /\ handles = NoHandles

CallIsArxivKeysPresent ==
    /\ op = "idle"
    /\ op' = "is_arxiv_keys_present"
    /\ LET r == is_arxiv_keys_present(arg) IN ret' = r.val /\ exc' = r.exc
    /\ UNCHANGED <<manifest, arg, pre, handles>>

\* the import of a file that read_xml_to_dict decodes to the document drawn
CallImportDecoded ==
    /\ op = "idle"
    /\ LET file == Xml(arg)
           r == import_arxiv_xml(manifest, PathPlain, file)
       IN /\ manifest' = r.manifest
          /\ op' = "import_arxiv_xml"
          /\ arg' = <<PathPlain, file>>
          /\ ret' = <<>>
          /\ exc' = r.exc
          /\ pre' = Held(manifest)
          /\ handles' = import_arxiv_xml_handles(handles, file)

\* get_statistics called once the import has returned or raised
CallGetStatisticsAfterImport ==
    /\ op = "import_arxiv_xml"
    /\ op' = "get_statistics"
    /\ ret' = <<get_statistics(manifest)>>
    /\ exc' = NoExc
    /\ pre' = Held(manifest)
    /\ UNCHANGED <<manifest, arg, handles>>

NextValidator == CallIsArxivKeysPresent \/ CallImportDecoded \/ CallGetStatisticsAfterImport

SpecValidator == InitValidator /\ [][NextValidator]_vars

(***************************************************************************)
(* Properties of the schema check (SpecValidator).                         *)
(***************************************************************************)
IsMapping(v) == Tag(v) = "dict"

\* the schema as the specification words it, (1) to (5)
SchemaConforms(doc) ==
    /\ Keys(doc) = {"arXivSRC"}
    /\ IsMapping(Get(doc, "arXivSRC"))
    /\ Keys(Get(doc, "arXivSRC")) = {"file", "timestamp"}
    /\ Tag(Get(Get(doc, "arXivSRC"), "timestamp")) = "str"
    /\ Tag(Get(Get(doc, "arXivSRC"), "file")) = "list"
    /\ LET entries == Payload(Get(Get(doc, "arXivSRC"), "file")) IN
       \A i \in DOMAIN entries :
          /\ IsMapping(entries[i])
          /\ Cardinality(Keys(entries[i])) = 10
          /\ \A k \in {"content_md5sum", "filename", "first_item", "last_item", "md5sum",
                       "num_items", "seq_num", "size", "timestamp", "yymm"} :
                k \in Keys(entries[i]) /\ Tag(Get(entries[i], k)) = "str"

CheckedDocument == op = "is_arxiv_keys_present"

\* C7: for every decoded document the check returns true exactly when the
\* document conforms to the schema, (1) to (5), and false on any deviation.
C7_ValidIffConforms ==
    CheckedDocument => (exc = NoExc /\ ret = <<SchemaConforms(arg)>>)

\* C8: the check raises no exception: it returns a boolean for every decoded
\* mapping.
C8_ReturnsBoolean ==
    CheckedDocument => (exc.type = "none" /\ ret \in {<<TRUE>>, <<FALSE>>})

(***************************************************************************)
(* Inputs of the import: the documents xmltodict can decode a manifest     *)
(* file to.  A repeated <file> element decodes to a list of two or more    *)
(* entries, a single one to a mapping, an empty element to None.           *)
(***************************************************************************)
Y0002 == <<"0","0","0","2">>
Y9112 == <<"9","1","1","2">>
Y1513 == <<"1","5","1","3">>

\* a second entry of January 2000 and one of December 1991
EntryJan2000Second ==
    FileEntry(ArchiveName(Y0001, 2), Y0001, <<"2">>, <<"1","0","0">>, <<"7">>,
              EntryStampDaylight)
EntryDec1991 ==
    FileEntry(ArchiveName(Y9112, 1), Y9112, <<"1">>, <<"4","0">>, <<"5">>,
              EntryStampStandard)
\* an entry whose filename is outside the convention
EntryBadFilename ==
    FileEntry(InvalidFilename, Y0001, <<"1">>, <<"2","2","5">>, <<"2","3">>,
              EntryStampStandard)
\* an entry of month 13 whose filename follows the convention
EntryBadMonth ==
    FileEntry(ArchiveName(Y1513, 2), Y1513, <<"2">>, <<"2","2","5">>, <<"2","3">>,
              EntryStampStandard)
\* a consistent entry whose size is no integer
EntryBadSize ==
    FileEntry(ArchiveName(Y0002, 1), Y0002, <<"1">>, <<"1","2","x">>, <<"2","3">>,
              EntryStampStandard)

FileEntries == {EntryJan2000, EntryJan2000Second, EntryDec1991,
                EntryBadFilename, EntryBadMonth, EntryBadSize}

ManifestStamps == {ManifestStampDaylight, ManifestStampNoMatch}

TwoEntries == <<EntryJan2000, EntryDec1991>>

\* documents that are not a manifest with two or more well-shaped entries
OtherDocuments ==
    { Dict(<< <<"invalid", None>> >>),
      Dict(<< <<"arXivSRC", None>> >>),
      Dict(<< <<"arXivSRC", Str(<<"x">>)>> >>),
      Dict(<< <<"arXivSRC", SrcDict("no_file", Str(ManifestStampDaylight), None)>> >>),
      Dict(<< <<"arXivSRC", SrcDict("no_timestamp", None, List(TwoEntries))>> >>),
      Dict(<< <<"arXivSRC", SrcDict("extra", Str(ManifestStampDaylight),
                                    List(TwoEntries))>> >>),
      Dict(<< <<"arXivSRC", SrcDict("both", Str(ManifestStampDaylight),
                                    EntryJan2000)>> >>),
      Dict(<< <<"arXivSRC", SrcDict("both", None, List(TwoEntries))>> >>),
      ArxivDocument(ManifestStampDaylight, <<EntryJan2000, None>>),
      ArxivDocument(ManifestStampDaylight, <<EntryJan2000, Str(<<"x">>)>>),
      ArxivDocument(ManifestStampDaylight, <<EntryJan2000, Delete(EntryDec1991, "yymm")>>),
      ArxivDocument(ManifestStampDaylight,
                    <<EntryJan2000, Add(EntryDec1991, "extra", Str(<<"x">>))>>),
      ArxivDocument(ManifestStampDaylight, <<EntryJan2000, Assign(EntryDec1991, "size", None)>>),
      ArxivDocument(ManifestStampDaylight,
                    <<EntryBadFilename, Delete(EntryDec1991, "yymm")>>),
      ArxivDocument(ManifestStampDaylight, <<EntryBadFilename, None>>) }

(***************************************************************************)
(* The Manifest as a state machine: one Manifest and a synchronous,        *)
(* single-threaded caller that calls clear, import_arxiv_xml and           *)
(* get_statistics in any order.  While op = "idle" no call is under way;   *)
(* a call runs to its end in one step and leaves its name, argument,       *)
(* result and exception in op, arg, ret and exc, and in pre what the       *)
(* Manifest held when it was made, until the caller goes on (Resume).      *)
(***************************************************************************)
Init ==
    /\ manifest = set_defaults(<<>>)
    /\ op = "idle"
    /\ arg = <<>>
    /\ ret = <<>>
    /\ exc = NoExc
    /\ pre = "empty"
    /\ handles = NoHandles

Clear ==
    /\ op = "idle"
    /\ manifest' = clear(manifest)
    /\ op' = "clear"
    /\ arg' = <<>>
    /\ ret' = <<>>
    /\ exc' = NoExc
    /\ pre' = Held(manifest)
    /\ UNCHANGED handles

\* a call of import_arxiv_xml(file_path), file being what the path names
DoImport(file_path, file) ==
    LET r == import_arxiv_xml(manifest, file_path, file) IN
    /\ manifest' = r.manifest
    /\ op' = "import_arxiv_xml"
    /\ arg' = <<file_path, file>>
    /\ ret' = <<>>
    /\ exc' = r.exc
    /\ pre' = Held(manifest)
    /\ handles' = import_arxiv_xml_handles(handles, file)

\* the path names no file, a directory, or a file that is not XML
ImportNoXml ==
    /\ op = "idle"
    /\ \E file_path \in Paths, file \in {Missing, Directory, Malformed} :
          DoImport(file_path, file)

\* the path names an XML document that deviates from the manifest schema
ImportOtherDocument ==
    /\ op = "idle"
    /\ \E file_path \in Paths, doc \in OtherDocuments : DoImport(file_path, Xml(doc))

\* the path names an XML document of the manifest schema (a repeated <file>
\* element decodes to a list of at least two entries)
ImportManifest ==
    /\ op = "idle"
    /\ \E file_path \in Paths, stamp \in ManifestStamps, n \in 2..MaxEntries :
          \E entries \in [1..n -> FileEntries] :
              DoImport(file_path, Xml(ArxivDocument(stamp, entries)))

GetStatistics ==
    /\ op = "idle"
    /\ op' = "get_statistics"
    /\ arg' = <<>>
    /\ ret' = <<get_statistics(manifest)>>
    /\ exc' = NoExc
    /\ pre' = Held(manifest)
    /\ UNCHANGED <<manifest, handles>>

Resume ==
    /\ op # "idle"
    /\ op' = "idle"
    /\ arg' = <<>>
    /\ ret' = <<>>
    /\ exc' = NoExc
    /\ pre' = "empty"
    /\ handles' = [handles EXCEPT !.opened = 0]
    /\ UNCHANGED manifest

Next == Clear \/ ImportNoXml \/ ImportOtherDocument \/ ImportManifest \/ GetStatistics
          \/ Resume

Spec == Init /\ [][Next]_vars

(***************************************************************************)
(* Properties of import_arxiv_xml, stated on the state a call leaves:      *)
(* arg holds the path and the file it names, exc the exception raised,     *)
(* manifest what the Manifest holds afterwards, pre what it held before.   *)
(***************************************************************************)
DefaultManifest == [metadata |-> <<>>, contents |-> <<>>]

ImportCall == op = "import_arxiv_xml"
\* the call was given a well-formed XML file; ImportedDocument is what the
\* file decodes to
ImportedXml == ImportCall /\ arg[2][1] = "xml"
ImportedDocument == arg[2][2]

DocStamp(doc) == Payload(Get(Get(doc, "arXivSRC"), "timestamp"))
DocEntries(doc) == Payload(Get(Get(doc, "arXivSRC"), "file"))

StampParses(doc) == ~Raised(convert_arxiv_timestamp_to_iso(DocStamp(doc)))
Inconsistent(e) == LET c == is_file_entry_consistent(e) IN ~Raised(c) /\ ~Val(c)
Normalizes(e) == ~Raised(process_file_entry(e))

\* what follows the last "/" of a path
AfterLastSlash(path) ==
    LET slashes == {i \in DOMAIN path : path[i] = "/"} IN
    IF slashes = {} THEN path
    ELSE SubSeq(path, (CHOOSE i \in slashes : \A j \in slashes : j <= i) + 1, Len(path))

\* C1 as stated: the import of every schema-valid document with an
\* inconsistent file entry fails with 'Entry inconsistent' and leaves the
\* record sequence empty.
C1_InconsistentEntryFailsEmpty ==
    (/\ ImportedXml
     /\ SchemaConforms(ImportedDocument)
     /\ \E k \in DOMAIN DocEntries(ImportedDocument) :
           Inconsistent(DocEntries(ImportedDocument)[k]))
    => (exc = EntryInconsistent /\ manifest.contents = <<>>)

\* C1 amended: the import of every schema-valid document whose manifest
\* timestamp parses and whose k-th file entry is inconsistent, the entries
\* before it normalizing, fails with 'Entry inconsistent' and leaves the
\* record sequence empty, whatever the Manifest held before.
C1_FirstFailureInconsistentFailsEmpty ==
    (/\ ImportedXml
     /\ SchemaConforms(ImportedDocument)
     /\ StampParses(ImportedDocument)
     /\ \E k \in DOMAIN DocEntries(ImportedDocument) :
           /\ Inconsistent(DocEntries(ImportedDocument)[k])
           /\ \A j \in 1..(k - 1) : Normalizes(DocEntries(ImportedDocument)[j]))
    => (exc = EntryInconsistent /\ manifest.contents = <<>>)

\* a Manifest that held records has imported a document whose first entry
\* normalizes and whose second entry is inconsistent
C1_Witness ==
    /\ ImportedXml
    /\ pre = "records"
    /\ SchemaConforms(ImportedDocument)
    /\ StampParses(ImportedDocument)
    /\ Normalizes(DocEntries(ImportedDocument)[1])
    /\ Inconsistent(DocEntries(ImportedDocument)[2])
    /\ exc = EntryInconsistent

\* C2: whenever import_arxiv_xml fails because a file entry is inconsistent,
\* the Manifest is in the default state: empty metadata and no records.
C2_InconsistentFailureLeavesDefault ==
    (ImportCall /\ exc = EntryInconsistent) => manifest = DefaultManifest

\* C3: for a path that names no regular file (nothing, or a directory) the
\* import fails with 'arXiv XML file not found' and leaves the Manifest in
\* the default state.
C3_NotFoundLeavesDefault ==
    (ImportCall /\ arg[2][1] \in {"missing", "dir"})
    => (exc = ManifestNotFound /\ manifest = DefaultManifest)

\* a Manifest that held the records of an import is given a path that names
\* no regular file
C3_Witness ==
    /\ ImportCall
    /\ arg[2][1] \in {"missing", "dir"}
    /\ pre = "records"
    /\ exc = ManifestNotFound

\* C4: for every decoded document that deviates from the schema the import
\* fails with a TypeError, no other kind of error, and leaves the Manifest
\* in the default state.
C4_NonConformingIsTypeError ==
    (ImportedXml /\ ~SchemaConforms(ImportedDocument))
    => (exc.type = "TypeError" /\ manifest = DefaultManifest)

\* C5: after the import of a schema-valid document whose timestamp parses
\* and whose n entries all normalize, the metadata is exactly the basename
\* of the path and the normalized manifest timestamp, and the records are
\* the n normalized entries in document order.
C5_SuccessfulImportPostcondition ==
    (/\ ImportedXml
     /\ SchemaConforms(ImportedDocument)
     /\ StampParses(ImportedDocument)
     /\ \A i \in DOMAIN DocEntries(ImportedDocument) :
           Normalizes(DocEntries(ImportedDocument)[i]))
    => /\ exc = NoExc
       /\ manifest.metadata =
            << <<"manifest_filename", AfterLastSlash(arg[1])>>,
               <<"timestamp_iso",
                 Val(convert_arxiv_timestamp_to_iso(DocStamp(ImportedDocument)))>> >>
       /\ Len(manifest.contents) = Len(DocEntries(ImportedDocument))
       /\ \A i \in DOMAIN DocEntries(ImportedDocument) :
             manifest.contents[i] = Val(process_file_entry(DocEntries(ImportedDocument)[i]))

\* a document in a directory, with two entries of different months, has
\* been imported
C5_Witness ==
    /\ ImportedXml
    /\ exc = NoExc
    /\ arg[1] = PathInDirectory
    /\ Len(manifest.contents) = 2
    /\ manifest.contents[1].month # manifest.contents[2].month

\* C6: after a successful import the Manifest is the one the same import
\* gives to a Manifest in the default state: it depends on the document and
\* the path alone, not on the calls made before.
C6_SuccessDependsOnDocumentOnly ==
    (ImportCall /\ exc = NoExc)
    => manifest = import_arxiv_xml(DefaultManifest, arg[1], arg[2]).manifest

\* a Manifest that held records has imported a document successfully
C6_Witness ==
    /\ ImportCall
    /\ exc = NoExc
    /\ pre = "records"
    /\ manifest.contents # <<>>

(***************************************************************************)
(* Properties of the record checks and of the normalization (SpecEntry):   *)
(* the entry is arg for the two checks and the second entry of the         *)
(* document for the import.                                                *)
(***************************************************************************)
EntryUnderCall == IF ImportCall THEN DocEntries(ImportedDocument)[2] ELSE arg

\* a yymm of four digits whose last two stand for no month
MonthOutOfRange(yymm) ==
    /\ Len(yymm) = 4
    /\ \A i \in 1..4 : yymm[i] \in Digits
    /\ 10 * DigitVal(yymm[3]) + DigitVal(yymm[4]) \notin 1..12

\* what each call does with an entry it rejects as inconsistent
RejectedAsInconsistent ==
    CASE op = "is_file_entry_consistent" -> exc = NoExc /\ ret = <<FALSE>>
      [] op = "process_file_entry" -> exc = EntryInconsistent /\ ret = <<>>
      [] op = "import_arxiv_xml" -> exc = EntryInconsistent
      [] OTHER -> FALSE

\* C11 as stated: for every entry whose four-character yymm has a month part
\* outside 1..12 the consistency check returns false, whatever the filename,
\* and _process_file_entry and the import fail with 'Entry inconsistent'.
C11_MonthOutOfRangeRejected ==
    (op # "idle" /\ MonthOutOfRange(GetStr(EntryUnderCall, "yymm")))
    => RejectedAsInconsistent

\* C11 amended: the same for every such entry whose seq_num is an integer
\* literal.
C11_MonthOutOfRangeRejectedIntSeq ==
    (/\ op # "idle"
     /\ MonthOutOfRange(GetStr(EntryUnderCall, "yymm"))
     /\ IsIntLiteral(GetStr(EntryUnderCall, "seq_num")))
    => RejectedAsInconsistent

\* the check has returned false for an entry of month 13 whose filename is
\* the one generated from its yymm and seq_num
C11_Witness ==
    /\ CheckedEntry
    /\ GetStr(arg, "yymm") = <<"1","5","1","3">>
    /\ IsIntLiteral(GetStr(arg, "seq_num"))
    /\ GetStr(arg, "filename") = ArchiveName(GetStr(arg, "yymm"), SeqOf(GetStr(arg, "seq_num")))
    /\ ret = <<FALSE>>


NormalizedEntry == op = "process_file_entry"

\* C12: for every raw entry the consistency check rejects, _process_file_entry
\* fails with 'Entry inconsistent' and returns nothing, also when the size,
\* the num_items or the timestamp of the entry would not parse.
C12_InconsistentBeforeFields ==
    (NormalizedEntry /\ is_file_entry_consistent(arg) = Return(FALSE))
    => (exc = EntryInconsistent /\ ret = <<>>)

\* an entry whose filename is outside the convention, whose size is no
\* integer and whose timestamp is not in the format has been rejected
C12_Witness ==
    /\ NormalizedEntry
    /\ GetStr(arg, "filename") = InvalidFilename
    /\ IsIntLiteral(GetStr(arg, "seq_num"))
    /\ ~IsIntLiteral(GetStr(arg, "size"))
    /\ GetStr(arg, "timestamp") = EntryStampNoMatch
    /\ exc = EntryInconsistent


RecordKeys == {"filename", "size_bytes", "timestamp_iso", "year", "month",
               "sequence_number", "n_submissions", "hash"}

\* the fields of the returned record that C13 spells out, the month being
\* read from the text month_part
RecordOfEntry(record, entry, month_part) ==
    /\ DOMAIN record = RecordKeys
    /\ record.filename = GetStr(entry, "filename")
    /\ record.size_bytes = Val(int(GetStr(entry, "size")))
    /\ record.month = Val(int(month_part))
    /\ record.sequence_number = Val(int(GetStr(entry, "seq_num")))
    /\ record.n_submissions = Val(int(GetStr(entry, "num_items")))
    /\ DOMAIN record.hash = {"MD5", "MD5_contents"}
    /\ record.hash.MD5 = GetStr(entry, "md5sum")
    /\ record.hash.MD5_contents = GetStr(entry, "content_md5sum")

ConsistentNumericEntry(entry) ==
    /\ is_file_entry_consistent(entry) = Return(TRUE)
    /\ IsIntLiteral(GetStr(entry, "size"))
    /\ IsIntLiteral(GetStr(entry, "num_items"))
    /\ IsIntLiteral(GetStr(entry, "seq_num"))

\* C13 as stated: for every consistent raw entry with numeric size, num_items
\* and seq_num, _process_file_entry returns a record with exactly the eight
\* keys, filename copied, the integers parsed, the month parsed from the last
\* two characters of yymm, and the two hashes under MD5 and MD5_contents.
C13_RecordFromLastTwo ==
    (NormalizedEntry /\ ConsistentNumericEntry(arg))
    => /\ exc = NoExc
       /\ Len(ret) = 1
       /\ RecordOfEntry(ret[1], arg, LastTwo(GetStr(arg, "yymm")))

\* C13 amended: the same for every such entry whose yymm starts with two
\* digits and whose timestamp is in the entry format, the month being parsed
\* from the characters of yymm from the third on.
C13_RecordFromMonthPart ==
    (/\ NormalizedEntry
     /\ ConsistentNumericEntry(arg)
     /\ \A i \in 1..2 : GetStr(arg, "yymm")[i] \in Digits
     /\ ~Raised(strptime_entry(GetStr(arg, "timestamp"))))
    => /\ exc = NoExc
       /\ Len(ret) = 1
       /\ RecordOfEntry(ret[1], arg, Suffix(GetStr(arg, "yymm"), 2))

\* the entry of yymm '151' with the filename generated from it has been
\* normalized: its month is 1
C13_Witness ==
    /\ NormalizedEntry
    /\ exc = NoExc
    /\ GetStr(arg, "yymm") = <<"1","5","1">>
    /\ ret[1].month = 1
    /\ ret[1].hash.MD5 # ret[1].hash.MD5_contents


(***************************************************************************)
(* The year of a record: the record checks applied to one consistent       *)
(* entry for every two-digit year, in January and in December.             *)
(***************************************************************************)
TwoDigitYears == {<<DigitChar(a), DigitChar(b)>> : a, b \in 0..9}

InitYear ==
    /\ manifest = set_defaults(<<>>)
    /\ op = "idle"
    /\ \E yy \in TwoDigitYears, mm \in {<<"0","1">>, <<"1","2">>} :
          arg = FileEntry(ArchiveName(yy \o mm, 1), yy \o mm, <<"1">>, <<"2","2","5">>,
                          <<"2","3">>, EntryStampStandard)
    /\ ret = <<>>
    /\ exc = NoExc
    /\ pre = "empty"
    /\ handles = NoHandles

SpecYear == InitYear /\ [][NextEntry]_vars

\* the number two digits stand for
TwoDigitValue(yy) == 10 * DigitVal(yy[1]) + DigitVal(yy[2])

\* C14: for every two-digit yy at the start of yymm the year of the record
\* is 1900 + yy when yy > 90 and 2000 + yy otherwise, and lies in 1991..2090.
C14_YearFromTwoDigits ==
    NormalizedEntry =>
        /\ exc = NoExc
        /\ ret[1].year = (IF TwoDigitValue(GetStr(arg, "yymm")) > 90
                          THEN 1900 + TwoDigitValue(GetStr(arg, "yymm"))
                          ELSE 2000 + TwoDigitValue(GetStr(arg, "yymm")))
        /\ ret[1].year \in 1991..2090

\* an entry of the year 90 has been normalized: its year is 2090
C14_Witness ==
    /\ NormalizedEntry
    /\ SubSeq(GetStr(arg, "yymm"), 1, 2) = <<"9","0">>
    /\ exc = NoExc
    /\ ret[1].year = 2090


(***************************************************************************)
(* The records a Manifest holds.                                           *)
(***************************************************************************)
HeldRecords == {manifest.contents[i] : i \in DOMAIN manifest.contents}

\* a number of 0..99 in two digits
TwoDigit(n) == <<DigitChar(n \div 10), DigitChar(n % 10)>>

\* C15: every record held by the Manifest has the filename of the convention
\* for its own year, month and sequence number: 'src/arXiv_src_', the year
\* modulo 100 in two digits, the month in two digits, '_', the sequence number
\* zero-padded to three digits, '.tar'; also when the yymm of the entry was
\* not four digits.
C15_FilenameOfYearMonthSequence ==
    \A r \in HeldRecords :
        r.filename = ArchiveName(TwoDigit(r.year % 100) \o TwoDigit(r.month),
                                 r.sequence_number)

\* C16: every record held by the Manifest has a size, a sequence number and
\* a number of submissions that are not negative.
C16_QuantitiesNotNegative ==
    \A r \in HeldRecords :
        /\ r.size_bytes >= 0
        /\ r.sequence_number >= 0
        /\ r.n_submissions >= 0


(***************************************************************************)
(* The two timestamp converters on their own: a timestamp text is drawn    *)
(* and one of the converters is applied to it.  The texts are wall-clock   *)
(* times in the layout of the manifest and in the layout of a file entry   *)
(* (around the changes of the clock, at the ends of months and years, at   *)
(* hours that carry into the next day), and texts in neither layout.       *)
(***************************************************************************)
WeekDays == << <<"S","u","n">>, <<"M","o","n">>, <<"T","u","e">>, <<"W","e","d">>,
               <<"T","h","u">>, <<"F","r","i">>, <<"S","a","t">> >>

ClockText(t) ==
    FormatZeroPadded(t.hour, 2) \o <<":">> \o FormatZeroPadded(t.minute, 2)
      \o <<":">> \o FormatZeroPadded(t.second, 2)

\* 'Mon Apr  7 04:58:03 2025'
ManifestLayout(t) ==
    WeekDays[DayOfWeek(t.year, t.month, t.day) + 1] \o <<" ">>
      \o MonthNames[t.month] \o <<" ">>
      \o (IF t.day < 10 THEN <<" ">> ELSE <<>>) \o NatStr(t.day) \o <<" ">>
      \o ClockText(t) \o <<" ">> \o FormatZeroPadded(t.year, 4)

\* '2010-12-23 00:13:59'
EntryLayout(t) ==
    FormatZeroPadded(t.year, 4) \o <<"-">> \o FormatZeroPadded(t.month, 2) \o <<"-">>
      \o FormatZeroPadded(t.day, 2) \o <<" ">> \o ClockText(t)

\* the years 2000, 2010, 2024 and 2025; days around the changes of the clock
\* of those years, at the ends of months and of the year, and in between;
\* hours of the night and of the evening
WallClocks ==
    {t \in {DateTime(y, d[1], d[2], h, ms[1], ms[2]) :
               y \in {2000, 2010, 2024, 2025},
               d \in { <<1, 1>>, <<2, 28>>, <<2, 29>>, <<3, 8>>, <<3, 9>>, <<3, 10>>,
                       <<3, 14>>, <<4, 1>>, <<4, 2>>, <<4, 7>>, <<4, 30>>, <<7, 4>>,
                       <<10, 29>>, <<10, 30>>, <<11, 2>>, <<11, 3>>, <<11, 7>>,
                       <<12, 23>>, <<12, 31>> },
               h \in {0, 1, 2, 3, 4, 18, 19, 20, 23},
               ms \in { <<58, 3>>, <<13, 59>>, <<0, 0>> }} : ValidDateTime(t)}

\* texts in neither layout: the two of the tests, the empty text, a month
\* 13, an hour 24, a date without its year
StampsNoMatch ==
    { ManifestStampNoMatch, EntryStampNoMatch, <<>>,
      <<"2","0","1","0","-","1","3","-","2","3"," ","0","0",":","1","3",":","5","9">>,
      <<"T","h","u"," ","D","e","c"," ","2","3"," ","2","4",":","1","3",":","5","9",
        " ","2","0","1","0">>,
      <<"M","o","n"," ","A","p","r"," "," ","7"," ","0","4",":","5","8",":","0","3">> }

InitStamp ==
    /\ manifest = set_defaults(<<>>)
    /\ op = "idle"
    /\ arg \in {ManifestLayout(t) : t \in WallClocks}
                 \cup {EntryLayout(t) : t \in WallClocks}
                 \cup StampsNoMatch
    /\ ret = <<>>
    /\ exc = NoExc
    /\ pre = "empty"
    /\ handles = NoHandles

CallConvertArxivTimestampToIso ==
    /\ op = "idle"
    /\ op' = "convert_arxiv_timestamp_to_iso"
    /\ LET r == convert_arxiv_timestamp_to_iso(arg) IN ret' = r.val /\ exc' = r.exc
    /\ UNCHANGED <<manifest, arg, pre, handles>>

CallConvertArxivFileEntryTimestampToIso ==
    /\ op = "idle"
    /\ op' = "convert_arxiv_file_entry_timestamp_to_iso"
    /\ LET r == convert_arxiv_file_entry_timestamp_to_iso(arg) IN
           ret' = r.val /\ exc' = r.exc
    /\ UNCHANGED <<manifest, arg, pre, handles>>

NextStamp == CallConvertArxivTimestampToIso \/ CallConvertArxivFileEntryTimestampToIso

SpecStamp == InitStamp /\ [][NextStamp]_vars


(***************************************************************************)
(* Timestamp conversion against the calendar.                              *)
(***************************************************************************)
\* the wall-clock times drawn, each with its text in the two layouts
ManifestClockTexts == {<<ManifestLayout(t), t>> : t \in WallClocks}
EntryClockTexts == {<<EntryLayout(t), t>> : t \in WallClocks}

\* the first and the last day of daylight saving time in the US Eastern
\* zone, as 100 * month + day, in the years of the inputs
DaylightFirstDay(y) == CASE y = 2000 -> 402 [] y = 2010 -> 314
                         [] y = 2024 -> 310 [] y = 2025 -> 309
DaylightLastDay(y) == CASE y = 2000 -> 1029 [] y = 2010 -> 1107
                        [] y = 2024 -> 1103 [] y = 2025 -> 1102

\* the offsets to UTC, in hours, a wall-clock time can have: 4 in daylight
\* saving time, 5 in standard time; the hour the clock skips (02:00 on the
\* first day) and the hour it repeats (01:00 on the last day) have no single
\* offset
OffsetsInForce(t) ==
    LET md == 100 * t.month + t.day
        first == DaylightFirstDay(t.year)
        last == DaylightLastDay(t.year)
    IN IF (md = first /\ t.hour = 2) \/ (md = last /\ t.hour = 1) THEN {4, 5}
       ELSE IF /\ (md > first \/ (md = first /\ t.hour >= 3))
               /\ (md < last \/ (md = last /\ t.hour < 1))
            THEN {4}
       ELSE {5}

\* days of a common year before each month
DaysBeforeMonth == <<0, 31, 59, 90, 120, 151, 181, 212, 243, 273, 304, 334, 365>>

\* the number of the hour of a calendar time, counted from the year 1
HourNumber(t) ==
    LET y == t.year - 1
        days == 365 * y + (y \div 4) - (y \div 100) + (y \div 400)
                  + DaysBeforeMonth[t.month]
                  + (IF t.month > 2 /\ IsLeap(t.year) THEN 1 ELSE 0) + t.day
    IN 24 * days + t.hour

\* text of the form 'YYYY-MM-DDTHH:MM:SS+00:00'
IsUtcText(s) ==
    /\ Len(s) = 25
    /\ \A i \in {1, 2, 3, 4, 6, 7, 9, 10, 12, 13, 15, 16, 18, 19} : s[i] \in Digits
    /\ s[5] = "-" /\ s[8] = "-" /\ s[11] = "T" /\ s[14] = ":" /\ s[17] = ":"
    /\ SubSeq(s, 20, 25) = <<"+","0","0",":","0","0">>

FieldsOfUtcText(s) ==
    DateTime(Num(SubSeq(s, 1, 4)), Num(SubSeq(s, 6, 7)), Num(SubSeq(s, 9, 10)),
             Num(SubSeq(s, 12, 13)), Num(SubSeq(s, 15, 16)), Num(SubSeq(s, 18, 19)))

\* text s is calendar time u, a date and time of day that exist, and u is
\* wall-clock time t moved by one of the offsets in force
IsUtcOfEastern(s, t) ==
    /\ IsUtcText(s)
    /\ LET u == FieldsOfUtcText(s) IN
          /\ u.month \in 1..12
          /\ u.day >= 1
          /\ u.day <= DaysBeforeMonth[u.month + 1] - DaysBeforeMonth[u.month]
                        + (IF u.month = 2 /\ IsLeap(u.year) THEN 1 ELSE 0)
          /\ u.hour \in 0..23
          /\ u.minute = t.minute
          /\ u.second = t.second
          /\ HourNumber(u) - HourNumber(t) \in OffsetsInForce(t)

C18_StampFailureLeavesDefault ==
    (ImportCall /\ exc = TimeFormatError) => manifest = DefaultManifest


\* C19: after clear(), whatever the Manifest held before (nothing, the
\* metadata of a failed import, the records of an import), it holds exactly
\* an empty metadata mapping and an empty sequence of records, as a newly
\* constructed Manifest does, and another clear() leaves that state as it is.
C19_ClearResetsIdempotent ==
    op = "clear" =>
        /\ manifest = [metadata |-> <<>>, contents |-> <<>>]
        /\ manifest = set_defaults(<<>>)
        /\ clear(manifest) = manifest
        /\ clear(clear(manifest)) = clear(manifest)

\* clear() of a Manifest that held records
C19_Witness ==
    /\ op = "clear"
    /\ pre = "records"
    /\ manifest.metadata = <<>>
    /\ manifest.contents = <<>>


(***************************************************************************)
(* get_statistics against the sums of the records.                         *)
(***************************************************************************)
\* the sum of a field over the records of a (year, month) pair
RECURSIVE SumOfField(_, _, _)
SumOfField(records, key, field) ==
    IF records = <<>> THEN 0
    ELSE (IF <<records[1].year, records[1].month>> = key THEN records[1][field] ELSE 0)
           + SumOfField(Tail(records), key, field)

\* C20: get_statistics returns a mapping whose keys are exactly the
\* (year, month) pairs of the records held, each once, and whose value for
\* a pair is the sum of size_bytes and the sum of n_submissions over the
\* records of that pair; for no records it returns the empty mapping.
C20_StatisticsAreSums ==
    op = "get_statistics" =>
        LET statistics == ret[1] IN
        /\ {statistics[i][1] : i \in DOMAIN statistics}
             = {<<r.year, r.month>> : r \in HeldRecords}
        /\ \A i, j \in DOMAIN statistics :
              statistics[i][1] = statistics[j][1] => i = j
        /\ \A i \in DOMAIN statistics :
              statistics[i][2] =
                 [size_bytes |-> SumOfField(manifest.contents, statistics[i][1], "size_bytes"),
                  n_submissions |-> SumOfField(manifest.contents, statistics[i][1],
                                               "n_submissions")]
        /\ manifest.contents = <<>> => statistics = <<>>

\* two records of the same month and year, counted under one key
C20_Witness ==
    /\ op = "get_statistics"
    /\ Len(manifest.contents) = 2
    /\ manifest.contents[1] # manifest.contents[2]
    /\ manifest.contents[1].year = manifest.contents[2].year
    /\ manifest.contents[1].month = manifest.contents[2].month
    /\ Len(ret[1]) = 1
    /\ ret[1][1][2].size_bytes
         = manifest.contents[1].size_bytes + manifest.contents[2].size_bytes


(***************************************************************************)
(* get_statistics on its own: the Manifest holds nothing, or the records   *)
(* of an import of two to MaxRecords entries of January 2000 and December  *)
(* 1991, in every order.                                                   *)
(***************************************************************************)
InitStatistics ==
    /\ \E n \in {0} \cup 2..MaxRecords :
          \E entries \in [1..n -> {EntryJan2000, EntryJan2000Second, EntryDec1991}] :
             manifest =
                IF n = 0 THEN set_defaults(<<>>)
                ELSE import_arxiv_xml(set_defaults(<<>>), PathPlain,
                                      Xml(ArxivDocument(ManifestStampDaylight,
                                                        entries))).manifest
    /\ op = "idle"
    /\ arg = <<>>
    /\ ret = <<>>
    /\ exc = NoExc
    /\ pre = "empty"
    /\ handles = NoHandles

\* the record whose dict would be stored under a key seen for the first
\* time, were the record itself stored
origin_of_value_first_record(contents, key) ==
    CHOOSE i \in DOMAIN contents :
        /\ <<contents[i].year, contents[i].month>> = key
        /\ \A j \in 1..(i - 1) : <<contents[j].year, contents[j].month>> # key

\* which object the result holds under a key: 0 for a dict made by the call
\* itself, i for the dict of record i of the Manifest.  statistics[key] =
\* {'size_bytes': 0, 'n_submissions': 0} makes a new dict, and the additions
\* that follow store integers in it
origin_of_value(contents, key) == 0

\* the caller changes the mapping get_statistics returned: it sets the
\* size_bytes under one key to 0, or deletes one key.  The first writes to
\* the object held under the key, the second to the mapping itself, which
\* statistics = dict() made
ModifyResult ==
    /\ op = "get_statistics"
    /\ \E k \in DOMAIN ret[1], delete \in BOOLEAN :
          LET origin == origin_of_value(manifest.contents, ret[1][k][1]) IN
          /\ ret' = IF delete
                    THEN <<SubSeq(ret[1], 1, k - 1) \o SubSeq(ret[1], k + 1, Len(ret[1]))>>
                    ELSE <<[ret[1] EXCEPT ![k][2].size_bytes = 0]>>
          /\ manifest' = IF delete \/ origin = 0 THEN manifest
                         ELSE [manifest EXCEPT !.contents[origin].size_bytes = 0]
    /\ op' = "result_modified"
    /\ UNCHANGED <<arg, exc, pre, handles>>

NextStatistics == GetStatistics \/ ModifyResult \/ Resume

SpecStatistics == InitStatistics /\ [][NextStatistics]_vars

\* the (year, month) pair of a record
BucketOf(r) == <<r.year, r.month>>

\* where among the records held a pair occurs first
FirstSeenAt(key) ==
    CHOOSE i \in DOMAIN manifest.contents :
        /\ BucketOf(manifest.contents[i]) = key
        /\ \A j \in 1..(i - 1) : BucketOf(manifest.contents[j]) # key

\* C21: the keys of the mapping get_statistics returns are pairs of the
\* records held, each once, in the order in which the pairs first occur in
\* the record sequence; a later record of a pair already seen does not move
\* its key.
C21_KeysInFirstSeenOrder ==
    op = "get_statistics" =>
        LET statistics == ret[1] IN
        /\ \A i \in DOMAIN statistics :
              \E r \in HeldRecords : BucketOf(r) = statistics[i][1]
        /\ \A i, j \in DOMAIN statistics :
              i < j => FirstSeenAt(statistics[i][1]) < FirstSeenAt(statistics[j][1])

\* records of January 2000, December 1991 and January 2000 again: the keys
\* are (2000, 1) then (1991, 12), which is not their sorted order
C21_Witness ==
    /\ op = "get_statistics"
    /\ Len(manifest.contents) = 3
    /\ BucketOf(manifest.contents[1]) = <<2000, 1>>
    /\ BucketOf(manifest.contents[2]) = <<1991, 12>>
    /\ BucketOf(manifest.contents[3]) = <<2000, 1>>
    /\ Len(ret[1]) = 2
    /\ ret[1][1][1] = <<2000, 1>>
    /\ ret[1][2][1] = <<1991, 12>>


\* the call failed: import_arxiv_xml raised
ImportFailed == ImportCall /\ exc # NoExc

\* C22: whatever calls came before, get_statistics returns the aggregation
\* of the records the Manifest holds at that moment: one entry per (year,
\* month) pair of those records, holding their sums; the statistics of a
\* Manifest right after clear() or after a failed import are the empty
\* mapping.
C22_StatisticsOfRecordsHeldNow ==
    /\ op = "get_statistics" =>
          /\ Len(ret[1]) = Cardinality({BucketOf(r) : r \in HeldRecords})
          /\ \A i \in DOMAIN ret[1] :
                /\ ret[1][i][2].size_bytes
                     = SumOfField(manifest.contents, ret[1][i][1], "size_bytes")
                /\ ret[1][i][2].n_submissions
                     = SumOfField(manifest.contents, ret[1][i][1], "n_submissions")
                /\ \E r \in HeldRecords : BucketOf(r) = ret[1][i][1]
          /\ pre # "records" => ret = << <<>> >>
    /\ (op = "clear" \/ ImportFailed) => get_statistics(manifest) = <<>>

\* get_statistics of a Manifest that keeps no records after an import that
\* failed on one of its entries
C22_Witness ==
    /\ op = "get_statistics"
    /\ pre = "metadata"
    /\ ret = << <<>> >>


\* C23: no file handle is open when a call has returned or raised: after
\* import_arxiv_xml on every exit path (file not found, markup that is not
\* well-formed, schema rejection, timestamp that does not parse,
\* inconsistent record, success) and between calls.
C23_NoHandleLeftOpen ==
    /\ handles.open = 0
    /\ ImportCall =>
          handles.opened = (IF arg[2][1] = "xml" THEN 2
                            ELSE IF arg[2][1] = "malformed" THEN 1 ELSE 0)

\* the import of a file that is not well-formed XML: the parser raised while
\* the handle was open
C23_Witness ==
    /\ ImportCall
    /\ arg[2] = Malformed
    /\ exc.type = "TypeError"
    /\ handles = [open |-> 0, opened |-> 1]


(***************************************************************************)
(* Two Manifest instances.  In this specification manifest maps each       *)
(* instance to its own _manifest; a call names the instance it is made on  *)
(* (self) and arg starts with that name.                                   *)
(***************************************************************************)
Instances == {"A", "B"}

\* an attribute kept by the class: assigning it through one instance shows
\* in all
assign_manifest_on_class(all, self, value) == [i \in DOMAIN all |-> value]

\* self._manifest = value, and self._manifest[key] = value on the dict that
\* _set_defaults made for self: an attribute of the instance
assign_manifest(all, self, value) == [all EXCEPT ![self] = value]

InitInstances ==
    /\ manifest = [i \in Instances |-> set_defaults(<<>>)]
    /\ op = "idle"
    /\ arg = <<>>
    /\ ret = <<>>
    /\ exc = NoExc
    /\ pre = "empty"
    /\ handles = NoHandles

ClearInstance ==
    /\ op = "idle"
    /\ \E self \in Instances :
          /\ manifest' = assign_manifest(manifest, self, clear(manifest[self]))
          /\ op' = "clear"
          /\ arg' = <<self>>
          /\ pre' = Held(manifest[self])
    /\ ret' = <<>>
    /\ exc' = NoExc
    /\ UNCHANGED handles

\* imports that fail before and after the metadata is set, and imports that
\* succeed
ImportInstance ==
    /\ op = "idle"
    /\ \E self \in Instances, file_path \in Paths,
          file \in {Missing, Malformed,
                    Xml(ArxivDocument(ManifestStampDaylight, TwoEntries)),
                    Xml(ArxivDocument(ManifestStampDaylight,
                                      <<EntryJan2000, EntryJan2000Second>>)),
                    Xml(ArxivDocument(ManifestStampDaylight,
                                      <<EntryJan2000, EntryBadFilename>>))} :
          LET r == import_arxiv_xml(manifest[self], file_path, file) IN
          /\ manifest' = assign_manifest(manifest, self, r.manifest)
          /\ op' = "import_arxiv_xml"
          /\ arg' = <<self, file_path, file>>
          /\ exc' = r.exc
          /\ pre' = Held(manifest[self])
          /\ handles' = import_arxiv_xml_handles(handles, file)
    /\ ret' = <<>>

NextInstances == ClearInstance \/ ImportInstance \/ Resume

SpecInstances == InitInstances /\ [][NextInstances]_vars

RECURSIVE FirstEntryError(_)
FirstEntryError(entries) ==
    IF entries = <<>> THEN NoExc
    ELSE IF Raised(process_file_entry(entries[1])) THEN process_file_entry(entries[1]).exc
    ELSE FirstEntryError(Tail(entries))

\* the exception of the stages that follow the schema validation: the
\* manifest timestamp, then the entries in document order
ErrorAfterSchema(doc) ==
    IF ~StampParses(doc) THEN TimeFormatError ELSE FirstEntryError(DocEntries(doc))

\* C25: import_arxiv_xml reports the error of the earliest failing stage:
\* the path is no file; the file is not well-formed XML; the document
\* deviates from the schema anywhere (wrong-type, even when its first entry
\* is inconsistent); the manifest timestamp does not parse; then the first
\* entry in document order that fails.
C25_EarliestStageError ==
    ImportCall =>
        exc = (IF arg[2][1] \in {"missing", "dir"} THEN ManifestNotFound
               ELSE IF arg[2][1] = "malformed"
                    THEN Exc("TypeError", "file not in XML format")
               ELSE IF ~SchemaConforms(ImportedDocument) THEN EntriesMissing
               ELSE ErrorAfterSchema(ImportedDocument))


(***************************************************************************)
(* HashService (src/src/feck/file/hash_service.py).  A hashlib encoder is  *)
(* modelled as a streaming hash: its state is a number that update folds   *)
(* the bytes into one by one, with a multiplier of its own for each hash   *)
(* type, and hexdigest writes the state as four hexadecimal digits.  A     *)
(* HashType member is modelled by its value ('MD5', ...), any other        *)
(* hashable hash_type argument by '1337', an unhashable one by '[]'.       *)
(***************************************************************************)
hash_type_encoder_map == [MD5 |-> 31, SHA256 |-> 37, SHA512 |-> 41, SHA3_512 |-> 43]

\* hash_type in HashService._hash_type_encoder_map: the lookup hashes
\* hash_type
is_hash_type_allowed(hash_type) ==
    IF hash_type = "[]" THEN Raise("TypeError", "unhashable type")
    ELSE Return(hash_type \in DOMAIN hash_type_encoder_map)

get_hash_encoder_instance(hash_type) ==
    IF Raised(is_hash_type_allowed(hash_type)) THEN is_hash_type_allowed(hash_type)
    ELSE IF ~Val(is_hash_type_allowed(hash_type))
    THEN Raise("ValueError", "hash type must be an allowed value")
    ELSE Return([multiplier |-> hash_type_encoder_map[hash_type], state |-> 7])

\* hash_encoder.update(buffer)
RECURSIVE update(_, _)
update(hash_encoder, buffer) ==
    IF buffer = <<>> THEN hash_encoder
    ELSE update([hash_encoder EXCEPT
                    !.state = (@ * hash_encoder.multiplier + buffer[1] + 1) % 65521],
                Tail(buffer))

\* hash_encoder.hexdigest()
hexdigest(hash_encoder) ==
    LET hex == <<"0","1","2","3","4","5","6","7","8","9","a","b","c","d","e","f">>
        n == hash_encoder.state
    IN <<hex[((n \div 4096) % 16) + 1], hex[((n \div 256) % 16) + 1],
         hex[((n \div 16) % 16) + 1], hex[(n % 16) + 1]>>

\* a loop that ends at the first read of fewer bytes than asked for,
\* without feeding them
RECURSIVE read_until_short(_, _, _)
read_until_short(hash_encoder, unread, file_buffer_size) ==
    IF Len(unread) < file_buffer_size THEN hash_encoder
    ELSE read_until_short(update(hash_encoder, SubSeq(unread, 1, file_buffer_size)),
                          SubSeq(unread, file_buffer_size + 1, Len(unread)),
                          file_buffer_size)

\* the while loop of calculate_file_hash on the bytes not yet read:
\* file_handle.read(file_buffer_size) returns the next bytes, at most
\* file_buffer_size of them; an empty buffer ends the loop
RECURSIVE read_loop(_, _, _)
read_loop(hash_encoder, unread, file_buffer_size) ==
    IF unread = <<>> THEN hash_encoder
    ELSE IF Len(unread) <= file_buffer_size THEN read_loop(update(hash_encoder, unread),
                                                           <<>>, file_buffer_size)
    ELSE read_loop(update(hash_encoder, SubSeq(unread, 1, file_buffer_size)),
                   SubSeq(unread, file_buffer_size + 1, Len(unread)),
                   file_buffer_size)

\* the checks of the arguments with the file looked for first
calculate_file_hash_file_first(file, hash_type, file_buffer_size) ==
    IF ~isfile(file) THEN Raise("FileNotFoundError", "file not found")
    ELSE IF file_buffer_size <= 0 THEN Raise("ValueError", "buffer size must be positive")
    ELSE IF Raised(is_hash_type_allowed(hash_type)) THEN is_hash_type_allowed(hash_type)
    ELSE IF ~Val(is_hash_type_allowed(hash_type))
         THEN Raise("ValueError", "hash type must be an allowed value")
    ELSE Return(hexdigest(read_loop(Val(get_hash_encoder_instance(hash_type)),
                                    file[2], file_buffer_size)))

calculate_file_hash(file, hash_type, file_buffer_size) ==
    IF file_buffer_size <= 0 THEN Raise("ValueError", "buffer size must be positive")
    ELSE IF Raised(is_hash_type_allowed(hash_type)) THEN is_hash_type_allowed(hash_type)
    ELSE IF ~Val(is_hash_type_allowed(hash_type))
         THEN Raise("ValueError", "hash type must be an allowed value")
    ELSE IF ~isfile(file) THEN Raise("FileNotFoundError", "file not found")
    ELSE Return(hexdigest(read_loop(Val(get_hash_encoder_instance(hash_type)),
                                    file[2], file_buffer_size)))

calculate_buffer_hash(buffer, hash_type) ==
    IF Raised(is_hash_type_allowed(hash_type)) THEN is_hash_type_allowed(hash_type)
    ELSE IF ~Val(is_hash_type_allowed(hash_type))
    THEN Raise("ValueError", "hash type must be an allowed value")
    ELSE Return(hexdigest(update(Val(get_hash_encoder_instance(hash_type)), buffer)))

\* the files hashed: every content of at most MaxContent bytes 0 and 255, no
\* file, a directory
HashedFiles ==
    {Missing, Directory}
      \cup {<<"bytes", c>> : c \in UNION {[1..n -> {0, 255}] : n \in 0..MaxContent}}

\* arg is <<file, hash_type, file_buffer_size>>: the buffer sizes are those
\* around the lengths of the contents and the default
InitHash ==
    /\ manifest = set_defaults(<<>>)
    /\ op = "idle"
    /\ \E file \in HashedFiles,
          hash_type \in {"MD5", "SHA256", "SHA512", "SHA3_512", "1337", "[]"},
          file_buffer_size \in (0 - 1)..(MaxContent + 1) \cup {65536} :
             arg = <<file, hash_type, file_buffer_size>>
    /\ ret = <<>>
    /\ exc = NoExc
    /\ pre = "empty"
    /\ handles = NoHandles

CallCalculateFileHash ==
    /\ op = "idle"
    /\ op' = "calculate_file_hash"
    /\ LET r == calculate_file_hash(arg[1], arg[2], arg[3]) IN
          /\ ret' = r.val
          /\ exc' = r.exc
          /\ handles' = IF Raised(r) THEN handles ELSE with_open(handles, FALSE)
    /\ UNCHANGED <<manifest, arg, pre>>

CallCalculateBufferHash ==
    /\ op = "idle"
    /\ arg[1][1] = "bytes"
    /\ op' = "calculate_buffer_hash"
    /\ LET r == calculate_buffer_hash(arg[1][2], arg[2]) IN ret' = r.val /\ exc' = r.exc
    /\ UNCHANGED <<manifest, arg, pre, handles>>

NextHash == CallCalculateFileHash \/ CallCalculateBufferHash

SpecHash == InitHash /\ [][NextHash]_vars


\* calculate_file_hash was called with a positive buffer size and an allowed
\* hash type on a regular file
HashedFile ==
    /\ op = "calculate_file_hash"
    /\ arg[3] > 0
    /\ arg[2] \in {"MD5", "SHA256", "SHA512", "SHA3_512"}
    /\ arg[1][1] = "bytes"

\* C26: for every file content and every positive file_buffer_size,
\* calculate_file_hash returns a digest, the same for every buffer size,
\* equal to calculate_buffer_hash of the whole content with the same hash
\* type.
C26_DigestIndependentOfChunks ==
    HashedFile =>
        /\ exc = NoExc
        /\ Len(ret) = 1
        /\ ret = calculate_buffer_hash(arg[1][2], arg[2]).val
        /\ \A file_buffer_size \in 1..(MaxContent + 1) :
              calculate_file_hash(arg[1], arg[2], file_buffer_size).val = ret

\* four bytes read three at a time: a full chunk, then a shorter one
C26_Witness ==
    /\ HashedFile
    /\ arg[1][2] = <<0, 255, 255, 0>>
    /\ arg[3] = 3
    /\ exc = NoExc
    /\ ret # calculate_buffer_hash(<<0, 255, 255>>, arg[2]).val

KeysOf(dict) == {dict[i][1] : i \in DOMAIN dict}

\* C29: whatever sequence of clear and import_arxiv_xml calls, successful
\* or failing, has been made since construction, the Manifest has exactly
\* the components metadata and contents; metadata is empty or has exactly
\* the keys manifest_filename and timestamp_iso; and records are held only
\* together with metadata.
C29_ManifestShape ==
    /\ DOMAIN manifest = {"metadata", "contents"}
    /\ \/ manifest.metadata = <<>>
       \/ /\ Len(manifest.metadata) = 2
          /\ KeysOf(manifest.metadata) = {"manifest_filename", "timestamp_iso"}
    /\ manifest.contents # <<>> => manifest.metadata # <<>>

\* an import that failed on an entry after it had stored the metadata:
\* metadata without records
C29_Witness ==
    /\ op = "import_arxiv_xml"
    /\ exc # NoExc
    /\ manifest.metadata # <<>>
    /\ manifest.contents = <<>>


\* the decoded document of the call under way
DocumentOfCall == IF op = "is_arxiv_keys_present" THEN arg ELSE arg[2][2]

\* a document with the exact key sets, a string timestamp and an empty file
\* sequence
EmptyFileDocument(doc) ==
    /\ Keys(doc) = expected_top_level_keys
    /\ IsMapping(Get(doc, "arXivSRC"))
    /\ Keys(Get(doc, "arXivSRC")) = expected_src_keys
    /\ IsStr(Get(Get(doc, "arXivSRC"), "timestamp"))
    /\ Get(Get(doc, "arXivSRC"), "file") = List(<<>>)

\* what holds of the calls made with a document that has no file entry
EmptyFileOutcome ==
    /\ op = "is_arxiv_keys_present" => exc = NoExc /\ ret = <<TRUE>>
    /\ op = "import_arxiv_xml" =>
          /\ exc = NoExc
          /\ manifest.metadata # <<>>
          /\ manifest.contents = <<>>
    /\ op = "get_statistics" => ret = << <<>> >>

=============================================================================
